---- MODULE Spec2Model ----
(***************************************************************************)
(* A model of snakes_and_ladders.py: the game loop snakes_and_ladders(),   *)
(* the result type BenchmarkResult with its __add__, multiset_median,      *)
(* currency_series, play_count, play_time and benchmark_multicore.         *)
(*                                                                         *)
(* The module holds several specifications over one set of variables; a    *)
(* specification leaves the variables of the other parts at their initial  *)
(* values:                                                                 *)
(*   Spec        one call of snakes_and_ladders(), the full trace kept     *)
(*   FairSpec    the same loop under fair dice, the trace kept as a window *)
(*   AggSpec     results built by play_count, + and BenchmarkResult()      *)
(*   CombineSpec __add__ applied to operands drawn from the data model     *)
(*   MedianSpec  one call of multiset_median on a drawn histogram          *)
(*   SeriesSpec  one currency_series generator, resumed again and again    *)
(*   TimeSpec    one call of play_time, batch by batch                     *)
(*   CountSpec   one call of play_count, pass by pass, beside the clock    *)
(*   PoolSpec    one call of benchmark_multicore and its worker processes  *)
(*   HeapSpec    results as objects: BenchmarkResult(), play_count and +   *)
(***************************************************************************)
EXTENDS Integers, Sequences, FiniteSets, TLC

VARIABLES
    place,      \* snakes_and_ladders: the local `place`
    moves,      \* snakes_and_ladders: the local `moves`, a list of <<roll, place>>
    gpc,        \* snakes_and_ladders: "playing" inside the loop, "returned" after return
    aggs,       \* the BenchmarkResult objects a caller holds, by name
    opA, opB, opC,  \* CombineSpec: three BenchmarkResult operands
    sums,       \* CombineSpec: the results of the + calls made on them
    cpc,        \* CombineSpec: which + calls have been made
    counter, high, low,  \* multiset_median: its arguments
    median,     \* multiset_median: what the call returned or raised
    mpc,        \* multiset_median: "call" before the call, "done" after it
    series,     \* currency_series: the generator's frame (start, multiplier, s)
    yielded,    \* currency_series: the values the generator has yielded so far
    seconds,    \* play_time: its argument
    previous,   \* play_time: the local `previous`
    result,     \* play_time: the local `result`, None while it is unbound
    total_games,  \* play_time: the loop variable `total_games`, 0 before the loop
    tpc,        \* play_time: "loop" inside the for loop, "returned" after return
    frame,      \* play_count: its argument, its locals and its position
    clock,      \* time.perf_counter(), in ticks
    calls,      \* how many times snakes_and_ladders() has been called
    num_jobs,   \* benchmark_multicore: its argument num_jobs
    job_arg,    \* benchmark_multicore: the argument passed on to play_count
    jobs,       \* benchmark_multicore: the list `jobs` of futures
    broken,     \* the process pool: TRUE once a worker process has died
    folded,     \* benchmark_multicore: the futures as_completed has yielded
    acc,        \* benchmark_multicore: the local `result`, None while unbound
    bpc,        \* benchmark_multicore: "submit", "fold", "returned" or "raised"
    heap,       \* HeapSpec: the dict, list and BenchmarkResult objects there are
    refs        \* HeapSpec: the BenchmarkResult object each of a caller's names refers to

gameVars == <<place, moves, gpc>>
aggVars == <<aggs>>
combineVars == <<opA, opB, opC, sums, cpc>>
medianVars == <<counter, high, low, median, mpc>>
seriesVars == <<series, yielded>>
timeVars == <<seconds, previous, result, total_games, tpc>>
countVars == <<frame, clock, calls>>
poolVars == <<num_jobs, job_arg, jobs, broken, folded, acc, bpc>>
heapVars == <<heap, refs>>
vars == <<place, moves, gpc, aggs, opA, opB, opC, sums, cpc,
          counter, high, low, median, mpc, series, yielded,
          seconds, previous, result, total_games, tpc, frame, clock, calls,
          num_jobs, job_arg, jobs, broken, folded, acc, bpc, heap, refs>>

----------------------------------------------------------------------------
(* Bounds of the model *)

\* The longest trace Spec follows; a game still being played at this length stops.
MaxMoves == 7
\* random.random() is drawn as u / RandRes, u in 0 .. RandRes - 1.
RandRes == 8
\* FairSpec keeps the last TraceWindow moves of the trace.
TraceWindow == 2
\* The most games one call of play_count is asked to play.
MaxGames == 2
\* AggSpec follows a result while it holds at most this many games.
MaxTotalGames == 2
\* time.perf_counter() advances by 0 .. MaxTicks ticks during one play_count.
MaxTicks == 1
\* The counts of an operand's histogram are drawn from 0 .. MaxCount.
MaxCount == 1
\* The counts of multiset_median's histogram are drawn from 0 .. MaxMedianCount.
MaxMedianCount == 2
\* currency_series is started with no start or with one in -1 .. MaxStart.
MaxStart == 101
\* SeriesSpec resumes a generator until it has yielded MaxYields values.
MaxYields == 8
\* The series members the yielded values are compared with: up to 5 * 10^MaxPower.
MaxPower == 6
\* CountSpec follows a call of play_count asked for up to this many games.
MaxCallGames == 3
\* benchmark_multicore is called with num_jobs in 1 .. MaxJobs.
MaxJobs == 3
\* The jobs of benchmark_multicore run play_count(n), n in 0 .. MaxJobGames.
MaxJobGames == 1
\* HeapSpec follows a caller until there are MaxResults BenchmarkResult objects.
MaxResults == 4
\* play_time is called with seconds in 0 .. MaxSeconds.
MaxSeconds == 2
\* One batch of play_time takes 0 .. MaxBatchTicks seconds on the clock.
MaxBatchTicks == 2

----------------------------------------------------------------------------
(* The board and one turn of the game *)

\* The module-level table: ladders, then snakes.
SNAKES_AND_LADDERS ==
    (1 :> 38) @@ (4 :> 14) @@ (9 :> 31) @@ (21 :> 42) @@ (28 :> 84) @@
    (36 :> 44) @@ (51 :> 67) @@ (71 :> 91) @@ (80 :> 100) @@
    (98 :> 78) @@ (95 :> 75) @@ (93 :> 73) @@ (87 :> 24) @@ (64 :> 60) @@
    (62 :> 19) @@ (56 :> 53) @@ (49 :> 11) @@ (48 :> 26) @@ (16 :> 6)

\* SNAKES_AND_LADDERS.get(landed, landed)
BoardGetPlain(landed) == landed
BoardGetTrapped(landed) ==
    IF landed = 100 THEN 80
    ELSE IF landed \in DOMAIN SNAKES_AND_LADDERS \ {80} THEN SNAKES_AND_LADDERS[landed]
    ELSE landed
BoardGet(landed) ==
    IF landed \in DOMAIN SNAKES_AND_LADDERS THEN SNAKES_AND_LADDERS[landed] ELSE landed

\* roll = int(6 * random.random()) + 1, with random.random() = u / RandRes
DiceRoll(u) == (6 * u) \div RandRes + 1

\* if landed > 100: the roll overshoots and is ignored
TooHighLate(landed) == landed > 102
TooHigh(landed) == landed > 100

\* if place == 100: return moves
WonNear(p) == p >= 99
Won(p) == p = 100

\* The place after rolling `roll` on `p`.
NewPlaceBounce(p, roll) ==
    LET landed == p + roll
    IN  IF TooHigh(landed) THEN 100 - (landed - 100) ELSE BoardGet(landed)
NewPlace(p, roll) ==
    LET landed == p + roll
    IN  IF TooHigh(landed) THEN p ELSE BoardGet(landed)

\* One pass of the `while True` loop with the trace kept whole.
Turn(u) ==
    /\ gpc = "playing"
    /\ Len(moves) < MaxMoves
    /\ LET roll == DiceRoll(u)
           new  == NewPlace(place, roll)
       IN  /\ place' = new
           /\ moves' = Append(moves, <<roll, new>>)
           /\ gpc' = IF Won(new) THEN "returned" ELSE "playing"
    /\ UNCHANGED <<aggVars, combineVars, medianVars, seriesVars, timeVars, countVars, poolVars, heapVars>>

----------------------------------------------------------------------------
(* BenchmarkResult, its __add__ and play_count *)

\* dict.get(key, 0), which is also Counter's lookup of a missing key
CountOf(counts, key) == IF key \in DOMAIN counts THEN counts[key] ELSE 0

\* The dataclass constructor.  elapsed is a number of clock ticks.
BenchmarkResult(counts, elapsed, num_games, shortest, longest) ==
    [counts |-> counts, elapsed |-> elapsed, num_games |-> num_games,
     shortest |-> shortest, longest |-> longest]

\* BenchmarkResult(): every field at its default
NewBenchmarkResult == BenchmarkResult([k \in {} |-> 0], 0, 0, <<>>, <<>>)

\* sys.maxsize is 2^63 - 1; the model takes the largest integer TLC holds,
\* which like it exceeds the length of every trace.
sys_maxsize == 2147483647

\* __add__'s local function len_not_empty
len_plain(value) == Len(value)
len_not_empty(value) == IF Len(value) = 0 THEN sys_maxsize ELSE Len(value)

\* Counter(c1) + Counter(c2): the counts are added key by key and only the
\* keys whose sum is positive are kept.
CounterAddOverwrite(c1, c2) ==
    [k \in DOMAIN c1 \cup DOMAIN c2 |-> IF k \in DOMAIN c2 THEN c2[k] ELSE c1[k]]
CounterAdd(c1, c2) ==
    [k \in {x \in DOMAIN c1 \cup DOMAIN c2 : CountOf(c1, x) + CountOf(c2, x) > 0}
        |-> CountOf(c1, k) + CountOf(c2, k)]

\* min(a, b, key=len_not_empty): the first of the smallest
MinShortest(a, b) == IF len_not_empty(b) < len_not_empty(a) THEN b ELSE a
\* max(a, b, key=len): the first of the largest
MaxLongest(a, b) == IF Len(b) > Len(a) THEN b ELSE a

\* BenchmarkResult.__add__(self, other)
Add(self, other) ==
    BenchmarkResult(
        CounterAdd(self.counts, other.counts),
        self.elapsed + other.elapsed,
        self.num_games + other.num_games,
        MinShortest(self.shortest, other.shortest),
        MaxLongest(self.longest, other.longest))

\* The trace snakes_and_ladders() returns when the dice show `rolls`.
RECURSIVE Replay(_, _, _)
Replay(rolls, p, trace) ==
    IF rolls = <<>> THEN trace
    ELSE LET new == NewPlace(p, Head(rolls))
         IN  Replay(Tail(rolls), new, Append(trace, <<Head(rolls), new>>))

\* The games play_count's calls of snakes_and_ladders() return in the model:
\* two of seven moves and one of eight.
SampleGames ==
    { Replay(<<4, 6, 6, 2, 5, 5, 6>>, 0, <<>>),
      Replay(<<4, 6, 6, 2, 6, 6, 4>>, 0, <<>>),
      Replay(<<4, 6, 6, 2, 5, 5, 5, 1>>, 0, <<>>) }

\* The body of play_count's loop for the game `game`, on the locals
\* st = [counts, shortest, longest].
PlayOne(st, game) ==
    LET num_moves == Len(game)
    IN  [counts |->
            [k \in DOMAIN st.counts \cup {num_moves} |->
                IF k = num_moves THEN CountOf(st.counts, k) + 1 ELSE st.counts[k]],
         shortest |->
            IF st.shortest = <<>> \/ num_moves < Len(st.shortest)
            THEN game ELSE st.shortest,
         longest |->
            IF num_moves > Len(st.longest) THEN game ELSE st.longest]

\* The passes lo .. hi of the loop, on the locals st: the first half of
\* them, then the second half on the locals the first half leaves.  The
\* locals between the halves are bound as a value (the one element of a
\* set), so they are worked out once, and halving keeps the evaluation of
\* a batch of hundreds of games shallow.
RECURSIVE PlayRange(_, _, _, _)
PlayRange(st, games, lo, hi) ==
    IF lo > hi THEN st
    ELSE IF lo = hi THEN PlayOne(st, games[lo])
    ELSE LET mid == (lo + hi) \div 2
         IN  CHOOSE right \in
                 { PlayRange(left, games, mid + 1, hi) :
                       left \in {PlayRange(st, games, lo, mid)} } : TRUE

\* for _ in range(num_games): the loop over the games its calls return
PlayLoop(st, games) == PlayRange(st, games, 1, Len(games))

\* range(num_games) runs max(num_games, 0) times.
RangeLenOnceAtLeast(num_games) == IF num_games > 1 THEN num_games ELSE 1
RangeLen(num_games) == IF num_games > 0 THEN num_games ELSE 0

\* The num_games field of play_count's result: the argument.
PlayedField(num_games, games) == num_games

\* play_count(num_games), its calls of snakes_and_ladders() returning `games`
\* in turn and the clock advancing by `ticks`.
play_count(num_games, games, ticks) ==
    LET st == PlayLoop([counts |-> [k \in {} |-> 0], shortest |-> <<>>, longest |-> <<>>],
                       games)
    IN  BenchmarkResult(st.counts, ticks, PlayedField(num_games, games),
                        st.shortest, st.longest)

\* The names under which the caller of AggSpec holds results.
Names == {"x", "y"}

RECURSIVE SumCounts(_)
SumCounts(counts) ==
    IF DOMAIN counts = {} THEN 0
    ELSE LET k == CHOOSE x \in DOMAIN counts : TRUE
         IN  counts[k] + SumCounts([x \in DOMAIN counts \ {k} |-> counts[x]])

\* AggSpec follows results of at most MaxTotalGames games and MaxTicks ticks.
Followed(r) ==
    /\ SumCounts(r.counts) <= MaxTotalGames
    /\ r.num_games \in -MaxTotalGames .. MaxTotalGames
    /\ r.elapsed <= MaxTicks

\* name = play_count(n)
PlayCountCall(name, n, games, ticks) ==
    /\ Len(games) = RangeLen(n)
    /\ aggs' = [aggs EXCEPT ![name] = play_count(n, games, ticks)]
    /\ UNCHANGED <<gameVars, combineVars, medianVars, seriesVars, timeVars, countVars, poolVars, heapVars>>

\* name = left + right
AddCall(name, left, right) ==
    /\ Followed(Add(aggs[left], aggs[right]))
    /\ aggs' = [aggs EXCEPT ![name] = Add(aggs[left], aggs[right])]
    /\ UNCHANGED <<gameVars, combineVars, medianVars, seriesVars, timeVars, countVars, poolVars, heapVars>>

\* name = BenchmarkResult()
NewCall(name) ==
    /\ aggs' = [aggs EXCEPT ![name] = NewBenchmarkResult]
    /\ UNCHANGED <<gameVars, combineVars, medianVars, seriesVars, timeVars, countVars, poolVars, heapVars>>

AggInit ==
    /\ aggs = [name \in Names |-> NewBenchmarkResult]

AggNext ==
    \/ \E name \in Names : \E n \in -1 .. MaxGames :
         \E games \in [1 .. RangeLen(n) -> SampleGames] : \E ticks \in 0 .. MaxTicks :
            PlayCountCall(name, n, games, ticks)
    \/ \E name \in Names, left \in Names, right \in Names : AddCall(name, left, right)
    \/ \E name \in Names : NewCall(name)

----------------------------------------------------------------------------
(* __add__ as a function of its operands: CombineSpec draws three operands *)
(* and makes the + calls of the monoid laws on them.                       *)

\* The keys of the operands' histograms: the lengths of the sample games.
HistKeys == {Len(g) : g \in SampleGames}

\* Dicts from some of the keys to counts in 0 .. MaxCount.
HistInputs == UNION {[ks -> 0 .. MaxCount] : ks \in SUBSET HistKeys}

\* A trace field: unset, or a game.
TraceInputs == {<<>>} \cup SampleGames

GameOfLength(k) == CHOOSE g \in SampleGames : Len(g) = k

\* The operands: every histogram, with the other fields as a run of that
\* many games gives them (a key of count 0 apart); and every pair of
\* shortest and longest, set or unset, with an empty histogram.
Operands ==
    { LET played == {k \in DOMAIN h : h[k] > 0}
          fewest == CHOOSE k \in played : \A j \in played : k <= j
          most   == CHOOSE k \in played : \A j \in played : k >= j
      IN  BenchmarkResult(h, SumCounts(h), SumCounts(h),
                          IF played = {} THEN <<>> ELSE GameOfLength(fewest),
                          IF played = {} THEN <<>> ELSE GameOfLength(most))
      : h \in HistInputs }
    \cup
    { BenchmarkResult([k \in {} |-> 0], 1, 1, s, l) : s \in TraceInputs, l \in TraceInputs }

NoSums ==
    [ab |-> NewBenchmarkResult, ba |-> NewBenchmarkResult, bc |-> NewBenchmarkResult,
     ab_c |-> NewBenchmarkResult, a_bc |-> NewBenchmarkResult,
     a_id |-> NewBenchmarkResult, id_a |-> NewBenchmarkResult]

\* a + b, b + a and b + c
AddPairs ==
    /\ cpc = "operands"
    /\ sums' = [sums EXCEPT !.ab = Add(opA, opB), !.ba = Add(opB, opA),
                            !.bc = Add(opB, opC)]
    /\ cpc' = "pairs"
    /\ UNCHANGED <<gameVars, aggVars, opA, opB, opC, medianVars, seriesVars, timeVars, countVars, poolVars, heapVars>>

\* (a + b) + c and a + (b + c)
AddTriples ==
    /\ cpc = "pairs"
    /\ sums' = [sums EXCEPT !.ab_c = Add(sums.ab, opC), !.a_bc = Add(opA, sums.bc)]
    /\ cpc' = "triples"
    /\ UNCHANGED <<gameVars, aggVars, opA, opB, opC, medianVars, seriesVars, timeVars, countVars, poolVars, heapVars>>

\* a + BenchmarkResult() and BenchmarkResult() + a
AddIdentity ==
    /\ cpc = "triples"
    /\ sums' = [sums EXCEPT !.a_id = Add(opA, NewBenchmarkResult),
                            !.id_a = Add(NewBenchmarkResult, opA)]
    /\ cpc' = "done"
    /\ UNCHANGED <<gameVars, aggVars, opA, opB, opC, medianVars, seriesVars, timeVars, countVars, poolVars, heapVars>>

\* No + call made yet, on operands that are all BenchmarkResult().
CombineIdle ==
    /\ opA = NewBenchmarkResult
    /\ opB = NewBenchmarkResult
    /\ opC = NewBenchmarkResult
    /\ sums = NoSums
    /\ cpc = "operands"

CombineInit ==
    /\ opA \in Operands
    /\ opB \in Operands
    /\ opC \in Operands
    /\ sums = NoSums
    /\ cpc = "operands"

CombineNext == AddPairs \/ AddTriples \/ AddIdentity

----------------------------------------------------------------------------
(* multiset_median *)

\* An Optional[int]: None, or an integer v held as {v}
None == {}
Some(v) == {v}
ValueOf(optional) == CHOOSE v \in optional : TRUE

\* sorted(counter.keys())
RECURSIVE Sorted(_)
Sorted(keys) ==
    IF keys = {} THEN <<>>
    ELSE LET least == CHOOSE k \in keys : \A j \in keys : k <= j
         IN  <<least>> \o Sorted(keys \ {least})

\* if high and low: raise ValueError
ModeErrorMissing(h, l) == FALSE
ModeError(h, l) == h /\ l

\* count >= lower_pos, count >= upper_pos
ReachedStrict(count, pos) == count > pos
Reached(count, pos) == count >= pos

\* The `for key in sorted(counter.keys())` loop from the key at index i on,
\* with the locals count, lower_value and upper_value; its result is the
\* pair of lower_value and upper_value at the loop's end.
RECURSIVE MedianLoop(_, _, _, _, _, _, _)
MedianLoop(cnt, keys, i, count, lower_value, upper_value, pos) ==
    IF i > Len(keys) THEN <<lower_value, upper_value>>
    ELSE LET key    == keys[i]
             count2 == count + cnt[key]
             lower2 == IF lower_value = None /\ Reached(count2, pos.lower)
                       THEN Some(key) ELSE lower_value
         IN  IF upper_value = None /\ Reached(count2, pos.upper)
             THEN <<lower2, Some(key)>>              \* break
             ELSE MedianLoop(cnt, keys, i + 1, count2, lower2, upper_value, pos)

\* What a call returns: a number, held as its double (the mean of two
\* integers may end in .5), or the ValueError it raises.
Returns(doubled) == [kind |-> "returns", doubled |-> doubled]
Raises(message) == [kind |-> "ValueError", message |-> message]

\* multiset_median(counter, high=h, low=l)
multiset_median(cnt, h, l) ==
    IF ModeError(h, l)
    THEN Raises("Only one of the high and low arguments may be true")
    ELSE LET counter_total == SumCounts(cnt)
             \* middle = (counter_total + 1) / 2, floor and ceil of it
             lower_pos == (counter_total + 1) \div 2
             upper_pos == (counter_total + 2) \div 2
             found == MedianLoop(cnt, Sorted(DOMAIN cnt), 1, 0, None, None,
                                 [lower |-> lower_pos, upper |-> upper_pos])
             lower_value == found[1]
             upper_value == found[2]
         IN  IF lower_value = None \/ upper_value = None
             THEN Raises("Cannot calculate median of empty Counter")
             ELSE IF lower_pos = upper_pos THEN Returns(2 * ValueOf(lower_value))
             ELSE IF h THEN Returns(2 * ValueOf(upper_value))
             ELSE IF l THEN Returns(2 * ValueOf(lower_value))
             ELSE Returns(ValueOf(lower_value) + ValueOf(upper_value))

\* The keys of the histograms the calls are made on.
MedianKeys == {5, 7, 8, 9, 100}

CounterInputs == UNION {[ks -> 0 .. MaxMedianCount] : ks \in SUBSET MedianKeys}

NotCalled == [kind |-> "not called"]

MedianCall ==
    /\ mpc = "call"
    /\ median' = multiset_median(counter, high, low)
    /\ mpc' = "done"
    /\ UNCHANGED <<gameVars, aggVars, combineVars, counter, high, low, seriesVars, timeVars, countVars, poolVars, heapVars>>

MedianIdle ==
    /\ counter = [k \in {} |-> 0]
    /\ high = FALSE
    /\ low = FALSE
    /\ median = NotCalled
    /\ mpc = "call"

MedianInit ==
    /\ counter \in CounterInputs
    /\ high \in BOOLEAN
    /\ low \in BOOLEAN
    /\ median = NotCalled
    /\ mpc = "call"

MedianNext == MedianCall

----------------------------------------------------------------------------
(* currency_series *)

\* series = (1, 2, 5)
SeriesTuple == <<1, 2, 5>>

\* if start is None or value >= start
AfterStart(value, start) == start = None \/ value > ValueOf(start)
FromStart(value, start) == start = None \/ value >= ValueOf(start)

\* The generator run from `for s in series` at index i (from 1) with the
\* given multiplier up to its next yield: the value yielded and the frame
\* it is suspended in.
RECURSIVE RunToYield(_, _, _)
RunToYield(start, multiplier, i) ==
    IF i > Len(SeriesTuple) THEN RunToYield(start, multiplier * 10, 1)
    ELSE LET value == SeriesTuple[i] * multiplier
         IN  IF FromStart(value, start)
             THEN [value |-> value, multiplier |-> multiplier, i |-> i + 1]
             ELSE RunToYield(start, multiplier, i + 1)

\* next() on the generator
SeriesNext ==
    /\ Len(yielded) < MaxYields
    /\ LET run == RunToYield(series.start, series.multiplier, series.i)
       IN  /\ yielded' = Append(yielded, run.value)
           /\ series' = [series EXCEPT !.multiplier = run.multiplier, !.i = run.i]
    /\ UNCHANGED <<gameVars, aggVars, combineVars, medianVars, timeVars, countVars, poolVars, heapVars>>

\* currency_series(start): nothing runs until the first next()
NewSeries(start) == [start |-> start, multiplier |-> 1, i |-> 1]

SeriesIdle ==
    /\ series = NewSeries(None)
    /\ yielded = <<>>

SeriesInit ==
    /\ series \in {NewSeries(start) : start \in {None} \cup {Some(v) : v \in -1 .. MaxStart}}
    /\ yielded = <<>>

----------------------------------------------------------------------------
(* play_time *)

\* minimum = 100
minimum == 100

\* TimeSpec follows a call for this many batches: as many as a call makes
\* whose every batch takes a second or more.
MaxBatches == MaxSeconds + 1

\* count = total_games - previous.num_games
BatchCountWhole(total, prev) == total
BatchCount(total, prev) == total - prev.num_games

\* if result.elapsed > seconds: break
ExceedsOrEquals(elapsed, budget) == elapsed >= budget
Exceeds(elapsed, budget) == elapsed > budget

\* The games the `count` calls of snakes_and_ladders() of one batch return:
\* `first` from the first call and `rest` from every other.
BatchGames(count, first, rest) == [i \in 1 .. RangeLen(count) |-> IF i = 1 THEN first ELSE rest]

\* One pass of the for loop: the generator's next value, the batch, the
\* sum, and the break followed by `return result`.  The batch's games, its
\* result and the sum are each worked out once and bound as values.
Batch(first, rest, ticks) ==
    /\ tpc = "loop"
    /\ Len(yielded) < MaxBatches
    /\ LET run   == RunToYield(series.start, series.multiplier, series.i)
           count == BatchCount(run.value, previous)
       IN  \E games \in {BatchGames(count, first, rest)} :
           \E batch \in {play_count(count, games, ticks)} :
           \E sum \in {Add(previous, batch)} :
               /\ yielded' = Append(yielded, run.value)
               /\ series' = [series EXCEPT !.multiplier = run.multiplier, !.i = run.i]
               /\ total_games' = run.value
               /\ result' = Some(sum)
               /\ previous' = sum
               /\ tpc' = IF Exceeds(sum.elapsed, seconds) THEN "returned" ELSE "loop"
    /\ UNCHANGED <<gameVars, aggVars, combineVars, medianVars, seconds, countVars, poolVars, heapVars>>

\* play_time is not being called.
TimeIdle ==
    /\ seconds = 0
    /\ previous = NewBenchmarkResult
    /\ result = None
    /\ total_games = 0
    /\ tpc = "loop"

\* play_time(seconds) up to the for statement.
TimeInit ==
    /\ seconds \in 0 .. MaxSeconds
    /\ previous = NewBenchmarkResult
    /\ result = None
    /\ total_games = 0
    /\ tpc = "loop"
    /\ series = NewSeries(Some(minimum))
    /\ yielded = <<>>

TimeNext ==
    \E first \in SampleGames, rest \in SampleGames : \E ticks \in 0 .. MaxBatchTicks :
        Batch(first, rest, ticks)

----------------------------------------------------------------------------
(* play_count, one pass of its loop at a time *)

\* The frame of a call play_count(num_games) at its first statement.
NewFrame(num_games) ==
    [num_games |-> num_games, pc |-> "start", i |-> 0, start |-> 0,
     counts |-> [k \in {} |-> 0], shortest |-> <<>>, longest |-> <<>>,
     result |-> None]

\* counts = Counter(), shortest = [], longest = [], start = time.perf_counter()
CountStart ==
    /\ frame.pc = "start"
    /\ frame' = [frame EXCEPT !.pc = "loop", !.start = clock]
    /\ UNCHANGED <<gameVars, aggVars, combineVars, medianVars, seriesVars, timeVars, poolVars,
                   heapVars, clock, calls>>

\* One pass of `for _ in range(num_games)`: snakes_and_ladders() is called
\* and returns `game`.
CountPass(game) ==
    /\ frame.pc = "loop"
    /\ frame.i < RangeLen(frame.num_games)
    /\ calls' = calls + 1
    /\ LET st == PlayOne([counts |-> frame.counts, shortest |-> frame.shortest,
                          longest |-> frame.longest], game)
       IN  frame' = [frame EXCEPT !.i = frame.i + 1, !.counts = st.counts,
                                  !.shortest = st.shortest, !.longest = st.longest]
    /\ UNCHANGED <<gameVars, aggVars, combineVars, medianVars, seriesVars, timeVars, poolVars, heapVars,
                   clock>>

\* The loop is exhausted: elapsed = time.perf_counter() - start, and the
\* result is built and returned.
CountReturn ==
    /\ frame.pc = "loop"
    /\ frame.i >= RangeLen(frame.num_games)
    /\ frame' = [frame EXCEPT
                    !.pc = "returned",
                    !.result = Some(BenchmarkResult(frame.counts, clock - frame.start,
                                        PlayedField(frame.num_games, frame.i),
                                        frame.shortest, frame.longest))]
    /\ UNCHANGED <<gameVars, aggVars, combineVars, medianVars, seriesVars, timeVars, poolVars,
                   heapVars, clock, calls>>

\* The clock advances while the call runs.
ClockTick ==
    /\ frame.pc # "returned"
    /\ clock < MaxTicks
    /\ clock' = clock + 1
    /\ UNCHANGED <<gameVars, aggVars, combineVars, medianVars, seriesVars, timeVars, poolVars,
                   heapVars, frame, calls>>

\* play_count is not being called.
CountIdle ==
    /\ frame = NewFrame(0)
    /\ clock = 0
    /\ calls = 0

CountInit ==
    /\ frame \in {NewFrame(n) : n \in -1 .. MaxCallGames}
    /\ clock = 0
    /\ calls = 0

CountNext ==
    \/ CountStart
    \/ \E game \in SampleGames : CountPass(game)
    \/ CountReturn
    \/ ClockTick

----------------------------------------------------------------------------
(* benchmark_multicore(num_jobs, play_count, job_arg) and its process pool *)

\* A future of the pool: pending until its call has ended, then done with
\* the call's result or failed with its exception.  runs counts the calls
\* of the function made for it.
PendingFuture == [status |-> "pending", value |-> NewBenchmarkResult, runs |-> 0]

\* The futures still pending.
Pending(fs) == {j \in 1 .. Len(fs) : fs[j].status = "pending"}

\* future = pool.submit(function, *args, **kwargs); jobs.append(future)
Submit ==
    /\ bpc = "submit"
    /\ Len(jobs) < num_jobs
    /\ ~broken
    /\ jobs' = Append(jobs, PendingFuture)
    /\ UNCHANGED <<gameVars, aggVars, combineVars, medianVars, seriesVars, timeVars,
                   countVars, heapVars, num_jobs, job_arg, broken, folded, acc, bpc>>

\* pool.submit on a pool whose worker has died raises BrokenProcessPool,
\* which leaves the with block and the function.
SubmitBroken ==
    /\ bpc = "submit"
    /\ Len(jobs) < num_jobs
    /\ broken
    /\ bpc' = "raised"
    /\ UNCHANGED <<gameVars, aggVars, combineVars, medianVars, seriesVars, timeVars,
                   countVars, heapVars, num_jobs, job_arg, jobs, broken, folded, acc>>

\* A worker runs the function of a pending future to its return.
JobDone(j, first, rest) ==
    /\ j \in Pending(jobs)
    /\ jobs' = [jobs EXCEPT ![j] =
                  [status |-> "done",
                   value |-> play_count(job_arg, BatchGames(job_arg, first, rest), 1),
                   runs |-> jobs[j].runs + 1]]
    /\ UNCHANGED <<gameVars, aggVars, combineVars, medianVars, seriesVars, timeVars,
                   countVars, heapVars, num_jobs, job_arg, broken, folded, acc, bpc>>

\* The function of a pending future raises in its worker.
JobRaises(j) ==
    /\ j \in Pending(jobs)
    /\ jobs' = [jobs EXCEPT ![j] = [@ EXCEPT !.status = "failed", !.runs = @ + 1]]
    /\ UNCHANGED <<gameVars, aggVars, combineVars, medianVars, seriesVars, timeVars,
                   countVars, heapVars, num_jobs, job_arg, broken, folded, acc, bpc>>

\* A worker process dies while it runs a pending future: the pool is
\* broken and every pending future fails with BrokenProcessPool.
WorkerDies(j) ==
    /\ j \in Pending(jobs)
    /\ jobs' = [k \in 1 .. Len(jobs) |->
                  IF k = j THEN [jobs[k] EXCEPT !.status = "failed", !.runs = @ + 1]
                  ELSE IF k \in Pending(jobs) THEN [jobs[k] EXCEPT !.status = "failed"]
                  ELSE jobs[k]]
    /\ broken' = TRUE
    /\ UNCHANGED <<gameVars, aggVars, combineVars, medianVars, seriesVars, timeVars,
                   countVars, heapVars, num_jobs, job_arg, folded, acc, bpc>>

\* The end of the with block: ProcessPoolExecutor.__exit__ is
\* shutdown(wait=True), which returns when no future is pending.
JoinedNoWait(fs) == TRUE
Joined(fs) == Pending(fs) = {}

\* The with block is left and result = BenchmarkResult() is run.
ExitPool ==
    /\ bpc = "submit"
    /\ Len(jobs) = num_jobs
    /\ Joined(jobs)
    /\ acc' = Some(NewBenchmarkResult)
    /\ bpc' = "fold"
    /\ UNCHANGED <<gameVars, aggVars, combineVars, medianVars, seriesVars, timeVars,
                   countVars, heapVars, num_jobs, job_arg, jobs, broken, folded>>

\* future.result(): the value of a done future; the exception of a failed
\* one is raised.
FutureResultSwallowed(future) ==
    [raised |-> FALSE,
     value |-> IF future.status = "failed" THEN NewBenchmarkResult ELSE future.value]
FutureResult(future) ==
    [raised |-> future.status = "failed", value |-> future.value]

\* result += future.result(): BenchmarkResult has no __iadd__, so this is
\* result = result + future.result()
FoldKeepsLast(sofar, value) == value
FoldInto(sofar, value) == Add(sofar, value)

\* One pass of `for future in futures.as_completed(jobs)`: as_completed
\* yields a future that is no longer pending and that it has not yielded.
Fold(j) ==
    /\ bpc = "fold"
    /\ j \in (1 .. Len(jobs)) \ (folded \cup Pending(jobs))
    /\ folded' = folded \cup {j}
    /\ LET got == FutureResult(jobs[j])
       IN  IF got.raised
           THEN /\ bpc' = "raised"
                /\ acc' = acc
           ELSE /\ bpc' = "fold"
                /\ acc' = Some(FoldInto(ValueOf(acc), got.value))
    /\ UNCHANGED <<gameVars, aggVars, combineVars, medianVars, seriesVars, timeVars,
                   countVars, heapVars, num_jobs, job_arg, jobs, broken>>

\* as_completed is exhausted: return result
PoolReturn ==
    /\ bpc = "fold"
    /\ folded = 1 .. Len(jobs)
    /\ bpc' = "returned"
    /\ UNCHANGED <<gameVars, aggVars, combineVars, medianVars, seriesVars, timeVars,
                   countVars, heapVars, num_jobs, job_arg, jobs, broken, folded, acc>>

\* benchmark_multicore is not being called.
PoolIdle ==
    /\ num_jobs = 1
    /\ job_arg = 0
    /\ jobs = <<>>
    /\ broken = FALSE
    /\ folded = {}
    /\ acc = None
    /\ bpc = "submit"

\* benchmark_multicore(num_jobs, play_count, job_arg) with its pool
\* created; ProcessPoolExecutor takes max_workers from 1 up.
PoolInit ==
    /\ num_jobs \in 1 .. MaxJobs
    /\ job_arg \in 0 .. MaxJobGames
    /\ jobs = <<>>
    /\ broken = FALSE
    /\ folded = {}
    /\ acc = None
    /\ bpc = "submit"

PoolNext ==
    \/ Submit
    \/ SubmitBroken
    \/ \E j \in 1 .. MaxJobs : \E first \in SampleGames, rest \in SampleGames :
          JobDone(j, first, rest)
    \/ \E j \in 1 .. MaxJobs : JobRaises(j)
    \/ \E j \in 1 .. MaxJobs : WorkerDies(j)
    \/ ExitPool
    \/ \E j \in 1 .. MaxJobs : Fold(j)
    \/ PoolReturn

----------------------------------------------------------------------------
(* BenchmarkResult objects.  A heap holds the dict objects, the list       *)
(* objects and the BenchmarkResult objects made so far, each kind numbered *)
(* from 1 in the order made; a BenchmarkResult object holds the numbers of *)
(* its counts dict and of its shortest and longest lists.                  *)

NoObjects == [dicts |-> <<>>, lists |-> <<>>, results |-> <<>>]

\* The fields of the BenchmarkResult object numbered ref, by value.
Deref(h, ref) ==
    LET object == h.results[ref]
    IN  BenchmarkResult(h.dicts[object.counts], object.elapsed, object.num_games,
                        h.lists[object.shortest], h.lists[object.longest])

\* BenchmarkResult(): the default factories make a new dict and two new lists.
HeapNew(h) ==
    [heap |-> [dicts |-> Append(h.dicts, NewBenchmarkResult.counts),
               lists |-> h.lists \o <<NewBenchmarkResult.shortest, NewBenchmarkResult.longest>>,
               results |-> Append(h.results,
                              BenchmarkResult(Len(h.dicts) + 1, 0, 0,
                                              Len(h.lists) + 1, Len(h.lists) + 2))],
     ref |-> Len(h.results) + 1]

\* play_count(1), its call of snakes_and_ladders() returning `game` and the
\* clock advancing by one tick: counts is a new Counter, and shortest and
\* longest are both the list the game returned.
HeapPlayCount(h, game) ==
    LET played == play_count(1, <<game>>, 1)
    IN  [heap |-> [dicts |-> Append(h.dicts, played.counts),
                   lists |-> Append(h.lists, game),
                   results |-> Append(h.results,
                                  BenchmarkResult(Len(h.dicts) + 1, played.elapsed,
                                                  played.num_games,
                                                  Len(h.lists) + 1, Len(h.lists) + 1))],
         ref |-> Len(h.results) + 1]

\* self + other.  Counter(self.counts) + Counter(other.counts) and dict()
\* make new objects; min and max return one of the operands' lists, and
\* the new BenchmarkResult object holds that list itself.
HeapAddInPlace(h, self, other) ==
    LET a == h.results[self]
        b == h.results[other]
        sum == Add(Deref(h, self), Deref(h, other))
    IN  [heap |-> [dicts |-> [h.dicts EXCEPT ![a.counts] = sum.counts],
                   lists |-> h.lists,
                   results |-> Append(h.results,
                                  BenchmarkResult(a.counts, sum.elapsed, sum.num_games,
                                      IF len_not_empty(h.lists[b.shortest])
                                           < len_not_empty(h.lists[a.shortest])
                                      THEN b.shortest ELSE a.shortest,
                                      IF Len(h.lists[b.longest]) > Len(h.lists[a.longest])
                                      THEN b.longest ELSE a.longest))],
         ref |-> Len(h.results) + 1]
HeapAdd(h, self, other) ==
    LET a == h.results[self]
        b == h.results[other]
    IN  [heap |-> [dicts |-> Append(h.dicts, CounterAdd(h.dicts[a.counts], h.dicts[b.counts])),
                   lists |-> h.lists,
                   results |-> Append(h.results,
                                  BenchmarkResult(Len(h.dicts) + 1,
                                      a.elapsed + b.elapsed,
                                      a.num_games + b.num_games,
                                      IF len_not_empty(h.lists[b.shortest])
                                           < len_not_empty(h.lists[a.shortest])
                                      THEN b.shortest ELSE a.shortest,
                                      IF Len(h.lists[b.longest]) > Len(h.lists[a.longest])
                                      THEN b.longest ELSE a.longest))],
         ref |-> Len(h.results) + 1]

\* name = BenchmarkResult()
HeapNewCall(name) ==
    /\ Len(heap.results) < MaxResults
    /\ heap' = HeapNew(heap).heap
    /\ refs' = [refs EXCEPT ![name] = HeapNew(heap).ref]
    /\ UNCHANGED <<gameVars, aggVars, combineVars, medianVars, seriesVars, timeVars,
                   countVars, poolVars>>

\* name = play_count(1)
HeapPlayCall(name, game) ==
    /\ Len(heap.results) < MaxResults
    /\ heap' = HeapPlayCount(heap, game).heap
    /\ refs' = [refs EXCEPT ![name] = HeapPlayCount(heap, game).ref]
    /\ UNCHANGED <<gameVars, aggVars, combineVars, medianVars, seriesVars, timeVars,
                   countVars, poolVars>>

\* name = left + right; with name = left this is also name += right, as in
\* benchmark_multicore, and the rebinding of play_time's `previous`.
HeapAddCall(name, left, right) ==
    /\ Len(heap.results) < MaxResults
    /\ heap' = HeapAdd(heap, refs[left], refs[right]).heap
    /\ refs' = [refs EXCEPT ![name] = HeapAdd(heap, refs[left], refs[right]).ref]
    /\ UNCHANGED <<gameVars, aggVars, combineVars, medianVars, seriesVars, timeVars,
                   countVars, poolVars>>

\* One BenchmarkResult() to which every name refers.
HeapInit ==
    /\ heap = HeapNew(NoObjects).heap
    /\ refs = [name \in Names |-> HeapNew(NoObjects).ref]

HeapNext ==
    \/ \E name \in Names : HeapNewCall(name)
    \/ \E name \in Names : \E game \in SampleGames : HeapPlayCall(name, game)
    \/ \E name \in Names, left \in Names, right \in Names : HeapAddCall(name, left, right)

----------------------------------------------------------------------------
(* The specifications *)

GameInit ==
    /\ place = 0
    /\ moves = <<>>
    /\ gpc = "playing"

Init ==
    /\ GameInit
    /\ AggInit
    /\ CombineIdle
    /\ MedianIdle
    /\ SeriesIdle
    /\ TimeIdle
    /\ CountIdle
    /\ PoolIdle
    /\ HeapInit

AggSpec == Init /\ [][AggNext]_vars

InitOperands ==
    /\ GameInit
    /\ AggInit
    /\ CombineInit
    /\ MedianIdle
    /\ SeriesIdle
    /\ TimeIdle
    /\ CountIdle
    /\ PoolIdle
    /\ HeapInit

CombineSpec == InitOperands /\ [][CombineNext]_vars

InitMedian ==
    /\ GameInit
    /\ AggInit
    /\ CombineIdle
    /\ MedianInit
    /\ SeriesIdle
    /\ TimeIdle
    /\ CountIdle
    /\ PoolIdle
    /\ HeapInit

MedianSpec == InitMedian /\ [][MedianNext]_vars

InitSeries ==
    /\ GameInit
    /\ AggInit
    /\ CombineIdle
    /\ MedianIdle
    /\ SeriesInit
    /\ TimeIdle
    /\ CountIdle
    /\ PoolIdle
    /\ HeapInit

SeriesSpec == InitSeries /\ [][SeriesNext]_vars

InitTime ==
    /\ GameInit
    /\ AggInit
    /\ CombineIdle
    /\ MedianIdle
    /\ TimeInit
    /\ CountIdle
    /\ PoolIdle
    /\ HeapInit

\* The for statement taking the generator's next value: the start of a pass.
NextTarget ==
    /\ tpc = "loop"
    /\ Len(yielded) < MaxBatches
    /\ yielded' = Append(yielded, RunToYield(series.start, series.multiplier, series.i).value)

\* The for loop runs on until it breaks: a pass that can start does start.
TimeSpec == InitTime /\ [][TimeNext]_vars /\ WF_yielded(NextTarget)

InitCount ==
    /\ GameInit
    /\ AggInit
    /\ CombineIdle
    /\ MedianIdle
    /\ SeriesIdle
    /\ TimeIdle
    /\ CountInit
    /\ PoolIdle
    /\ HeapInit


CountSpec == InitCount /\ [][CountNext]_vars

InitPool ==
    /\ GameInit
    /\ AggInit
    /\ CombineIdle
    /\ MedianIdle
    /\ SeriesIdle
    /\ TimeIdle
    /\ CountIdle
    /\ PoolInit
    /\ HeapInit


\* The coordinator and the workers keep running: a call that can take a
\* step takes one.
PoolSpec == InitPool /\ [][PoolNext]_vars /\ WF_vars(PoolNext)

HeapSpec == Init /\ [][HeapNext]_vars

Next == \E u \in 0 .. RandRes - 1 : Turn(u)

Spec == Init /\ [][Next]_vars

----------------------------------------------------------------------------
(* The game under fair dice.  The loop reads only `place`; the trace is    *)
(* kept as its last TraceWindow moves so that a game of any length is a    *)
(* behaviour of the model.                                                 *)

LastMoves(s) ==
    IF Len(s) <= TraceWindow THEN s ELSE SubSeq(s, Len(s) - TraceWindow + 1, Len(s))

\* One pass of the loop from place p with the dice showing r.
FairTurn(p, r) ==
    /\ gpc = "playing"
    /\ place = p
    /\ \E u \in 0 .. RandRes - 1 :
          /\ DiceRoll(u) = r
          /\ LET new == NewPlace(place, r)
             IN  /\ place' = new
                 /\ moves' = LastMoves(Append(moves, <<r, new>>))
                 /\ gpc' = IF Won(new) THEN "returned" ELSE "playing"
    /\ UNCHANGED <<aggVars, combineVars, medianVars, seriesVars, timeVars, countVars, poolVars, heapVars>>

FairNext == \E p \in 0 .. 99 : \E r \in 1 .. 6 : FairTurn(p, r)

\* WinWithin[k + 1]: the places from which some k rolls or fewer reach a win.
RECURSIVE Levels(_)
Levels(seq) ==
    LET last == seq[Len(seq)]
        next == last \cup {p \in 0 .. 99 : \E r \in 1 .. 6 : NewPlace(p, r) \in last}
    IN  IF next = last THEN seq ELSE Levels(Append(seq, next))

WinWithin == Levels(<<{p \in 0 .. 100 : Won(p)}>>)

\* A turn from a place k rolls away from a win to a place k - 1 rolls away.
Closer(k) ==
    /\ place \in WinWithin[k + 1] \ WinWithin[k]
    /\ \E r \in 1 .. 6 :
          /\ NewPlace(place, r) \in WinWithin[k]
          /\ FairTurn(place, r)

\* Fair dice.  random.random() is uniform, so every roll value keeps being
\* drawn from every place the game keeps visiting: SF_vars(FairTurn(p, r))
\* for every p and r.  A place k rolls away from a win has a roll that
\* leads to a place k - 1 rolls away, and there are finitely many places,
\* so that fairness implies the one stated here, with one condition for
\* each distance instead of one for each pair of place and roll.
FairDice == \A k \in 1 .. Len(WinWithin) - 1 : SF_vars(Closer(k))

FairSpec == Init /\ [][FairNext]_vars /\ FairDice

----------------------------------------------------------------------------
\* No move before the last is on 100; the game has returned exactly when
\* its last move is on 100.
NoEarlierWin == \A i \in 1 .. Len(moves) - 1 : moves[i][2] # 100
ReturnedAtWin ==
    (gpc = "returned") <=> (moves # <<>> /\ moves[Len(moves)][2] = 100)

(* C1: under fair dice every game eventually returns, and it returns at    *)
(* the first move whose position is 100: the last move of the trace has    *)
(* position 100 and no move before the last has position 100.              *)

C1_ReturnsAtFirst100 ==
    /\ <>(gpc = "returned")
    /\ [](ReturnedAtWin /\ NoEarlierWin)

\* A game has returned, its last move on 100 and the one before it kept.
C1_Witness ==
    /\ gpc = "returned"
    /\ Len(moves) = TraceWindow
    /\ moves[Len(moves)][2] = 100

----------------------------------------------------------------------------
(* C2: in every state of a game the place is in 0 .. 100, and every        *)
(* recorded move has a roll in 1 .. 6 and a position in 0 .. 100, whatever *)
(* the rolls.                                                              *)

C2_RollAndPositionInRange ==
    /\ place \in 0 .. 100
    /\ \A i \in 1 .. Len(moves) : moves[i][1] \in 1 .. 6 /\ moves[i][2] \in 0 .. 100

\* A roll that would have passed 100 has been recorded.
C2_Witness ==
    \E i \in 2 .. Len(moves) :
        /\ moves[i - 1][2] + moves[i][1] > 100
        /\ moves[i][1] = 6
        /\ moves[i][2] <= 100

----------------------------------------------------------------------------
\* The turn as the rule states it, from the table and the roll alone.
TurnAsClaimed ==
    LET r == moves'[Len(moves')][1]
        landed == place + r
    IN  /\ Len(moves') = Len(moves) + 1
        /\ SubSeq(moves', 1, Len(moves)) = moves
        /\ IF landed > 100
           THEN /\ place' = place
                /\ moves'[Len(moves')] = <<r, place>>
                /\ gpc' = "playing"
           ELSE /\ place' = IF landed \in DOMAIN SNAKES_AND_LADDERS
                            THEN SNAKES_AND_LADDERS[landed] ELSE landed
                /\ moves'[Len(moves')] = <<r, place'>>

(* C3: a turn with roll r from place p appends exactly one move.  When     *)
(* p + r > 100 the place is unchanged, the move is (r, p) and the game     *)
(* goes on; otherwise the new place is the table's entry for p + r if it   *)
(* has one, else p + r, and the move carries the new place.                *)

C3_ForfeitTurn == [][TurnAsClaimed]_gameVars

\* A forfeit turn has just been played: the last move repeats the place
\* of the move before it, and the game is still on.
C3_Witness ==
    /\ gpc = "playing"
    /\ Len(moves) >= 2
    /\ moves[Len(moves) - 1][2] + moves[Len(moves)][1] > 100
    /\ moves[Len(moves)][2] = moves[Len(moves) - 1][2]
    /\ place = moves[Len(moves)][2]

----------------------------------------------------------------------------
\* Equal but for the choice among traces of one length, and for elapsed.
SameStatistics(r1, r2) ==
    /\ r1.counts = r2.counts
    /\ r1.num_games = r2.num_games
    /\ Len(r1.shortest) = Len(r2.shortest)
    /\ Len(r1.longest) = Len(r2.longest)

(* C4: + is commutative and associative in the histogram, in num_games and *)
(* in the lengths of shortest and longest: a + b and b + a agree on them,  *)
(* and so do (a + b) + c and a + (b + c).                                  *)

C4_AddCommutesAndAssociates ==
    /\ cpc \in {"pairs", "triples", "done"} => SameStatistics(sums.ab, sums.ba)
    /\ cpc \in {"triples", "done"} => SameStatistics(sums.ab_c, sums.a_bc)

\* Three operands with a game length in common, two of them holding
\* different shortest games of one length, have been added both ways.
C4_Witness ==
    /\ cpc = "triples"
    /\ \E k \in DOMAIN sums.ab_c.counts : sums.ab_c.counts[k] >= 2
    /\ sums.ab.shortest # sums.ba.shortest
    /\ sums.ab_c.longest # <<>>

----------------------------------------------------------------------------
\* The histogram without its keys of count 0.
PositiveCounts(counts) == [k \in {x \in DOMAIN counts : counts[x] > 0} |-> counts[k]]

(* C5, as claimed: x + BenchmarkResult() and BenchmarkResult() + x equal x *)
(* in every field, for every x whose counts are non-negative integers.     *)

----------------------------------------------------------------------------
(* C6: in every result built by play_count, + and BenchmarkResult(), the   *)
(* counts of the histogram add up to num_games.                            *)

C6_CountsAddUpToNumGames ==
    \A name \in Names : SumCounts(aggs[name].counts) = aggs[name].num_games

----------------------------------------------------------------------------
\* The lengths of the games a result counts.
PlayedLengths(r) == {k \in DOMAIN r.counts : r.counts[k] > 0}

(* C7: in every result built from play_count results by +, the shortest    *)
(* trace is as long as the smallest key with a positive count and the      *)
(* longest as long as the largest; shortest and longest are unset exactly  *)
(* when num_games is 0.                                                    *)

C7_ExtremesMatchHistogram ==
    \A name \in Names :
        LET r == aggs[name]
        IN  /\ PlayedLengths(r) # {} =>
                /\ \A k \in PlayedLengths(r) : Len(r.shortest) <= k /\ k <= Len(r.longest)
                /\ Len(r.shortest) \in PlayedLengths(r)
                /\ Len(r.longest) \in PlayedLengths(r)
            /\ (r.shortest = <<>>) <=> (r.num_games = 0)
            /\ (r.longest = <<>>) <=> (r.num_games = 0)

----------------------------------------------------------------------------
\* The sorted list of the histogram's elements.
RECURSIVE Repeated(_, _)
Repeated(key, times) == IF times = 0 THEN <<>> ELSE <<key>> \o Repeated(key, times - 1)

RECURSIVE Expanded(_, _)
Expanded(cnt, keys) ==
    IF keys = <<>> THEN <<>>
    ELSE Repeated(Head(keys), cnt[Head(keys)]) \o Expanded(cnt, Tail(keys))

\* The median of a sorted list, doubled.
ListMedianDoubled(xs, h, l) ==
    LET n == Len(xs)
    IN  IF n % 2 = 1 THEN 2 * xs[(n + 1) \div 2]
        ELSE IF h THEN 2 * xs[n \div 2 + 1]
        ELSE IF l THEN 2 * xs[n \div 2]
        ELSE xs[n \div 2] + xs[n \div 2 + 1]

(* C8: for a histogram with a positive count, multiset_median returns the  *)
(* median of the sorted list that repeats each key count times: the middle *)
(* element of an odd number of elements; of an even number the mean of the *)
(* two middle elements, with high=True the upper and with low=True the     *)
(* lower of them.                                                          *)

C8_MedianOfExpandedList ==
    mpc = "done" /\ ~(high /\ low) /\ SumCounts(counter) > 0 =>
        /\ median =
             Returns(ListMedianDoubled(Expanded(counter, Sorted(DOMAIN counter)), high, low))
        /\ counter = (7 :> 1) @@ (8 :> 2) @@ (9 :> 1) => median = Returns(16)
        /\ counter = (5 :> 1) @@ (100 :> 1) =>
             median = Returns(IF high THEN 200 ELSE IF low THEN 10 ELSE 105)

\* The call on {5: 1, 100: 1}, an unused key beside them, returned 52.5.
C8_Witness ==
    /\ mpc = "done"
    /\ counter = (5 :> 1) @@ (8 :> 0) @@ (100 :> 1)
    /\ ~high /\ ~low
    /\ median = Returns(105)

----------------------------------------------------------------------------
(* C9: multiset_median raises when both high and low are asked for,        *)
(* whatever the histogram, and with the error of the arguments, not that   *)
(* of the histogram; and it raises on an empty histogram in every mode.    *)

C9_MedianRejects ==
    mpc = "done" =>
        /\ high /\ low =>
             median = Raises("Only one of the high and low arguments may be true")
        /\ DOMAIN counter = {} => median.kind = "ValueError"
        /\ DOMAIN counter = {} /\ ~(high /\ low) =>
             median = Raises("Cannot calculate median of empty Counter")

\* A call with both high and low on a histogram that has a median.
C9_Witness ==
    /\ mpc = "done"
    /\ high /\ low
    /\ SumCounts(counter) > 1
    /\ median.kind = "ValueError"

----------------------------------------------------------------------------
\* The numbers {1, 2, 5} x 10^k, and those of them from start on.
RECURSIVE Pow10(_)
Pow10(k) == IF k = 0 THEN 1 ELSE 10 * Pow10(k - 1)

Members == {d * Pow10(k) : d \in {1, 2, 5}, k \in 0 .. MaxPower}

MembersFrom(start) == {m \in Members : start = None \/ m >= ValueOf(start)}

(* C10: currency_series yields the numbers {1, 2, 5} x 10^k that are at    *)
(* least start (all of them with no start) in increasing order, none left  *)
(* out: 1, 2, 5, 10, ... with no start, 100 first for start=100; and the   *)
(* generator always has a next value.                                      *)

C10_SeriesInOrderFromStart ==
    /\ \A i \in 1 .. Len(yielded) :
          /\ yielded[i] \in MembersFrom(series.start)
          /\ Cardinality({m \in MembersFrom(series.start) : m < yielded[i]}) = i - 1
    /\ \A i \in 1 .. Len(yielded) - 1 : yielded[i] < yielded[i + 1]
    /\ series.start = None =>
          yielded = SubSeq(<<1, 2, 5, 10, 20, 50, 100, 200, 500, 1000>>, 1, Len(yielded))
    /\ series.start = Some(100) /\ yielded # <<>> => yielded[1] = 100
    /\ Len(yielded) < MaxYields => ENABLED SeriesNext

\* The generator started at 100 has yielded its first three values.
C10_Witness ==
    /\ series.start = Some(100)
    /\ yielded = <<100, 200, 500>>

----------------------------------------------------------------------------
(* C11: after every batch of play_time the accumulated num_games, and the  *)
(* number of games in the histogram, equal the series target T of that     *)
(* batch (the batch played T - previous.num_games games); the aggregate    *)
(* returned is the accumulated one and its num_games is a member of the    *)
(* series that is at least 100, also when the first batch alone exceeds    *)
(* the time budget.                                                        *)

C11_BatchesReachSeriesTargets ==
    /\ yielded # <<>> =>
          /\ total_games = yielded[Len(yielded)]
          /\ previous.num_games = total_games
          /\ SumCounts(previous.counts) = total_games
    /\ tpc = "returned" =>
          /\ result = Some(previous)
          /\ previous.num_games \in MembersFrom(Some(100))
    /\ tpc = "returned" /\ Len(yielded) = 1 => previous.num_games = 100

\* A call has returned after its second batch.
C11_Witness ==
    /\ tpc = "returned"
    /\ yielded = <<100, 200>>
    /\ ValueOf(result).num_games = 200

----------------------------------------------------------------------------
(* C12: play_time returns an aggregate whose elapsed exceeds seconds;      *)
(* while it is in the loop the elapsed accumulated by the batches so far   *)
(* does not exceed seconds; after it has returned no batch is run; and if  *)
(* every batch takes a second or more (the accumulated elapsed is never    *)
(* less than the number of batches) the call eventually returns.           *)

C12_StopsOnceBudgetExceeded ==
    /\ [](tpc = "returned" => ValueOf(result).elapsed > seconds)
    /\ [](tpc = "loop" => previous.elapsed <= seconds)
    /\ [][tpc = "returned" => UNCHANGED <<timeVars, seriesVars>>]_vars
    /\ ([](previous.elapsed >= Len(yielded)) => <>(tpc = "returned"))

\* A call has returned after its third batch, the two before it within
\* the budget.
C12_Witness ==
    /\ tpc = "returned"
    /\ Len(yielded) = 3
    /\ seconds = 2
    /\ previous.elapsed = 3

----------------------------------------------------------------------------
(* C13, as claimed: play_count(0) returns BenchmarkResult(), its elapsed 0 *)
(* with the other fields, and calls snakes_and_ladders() not once.         *)

C13_ZeroGamesIsIdentity ==
    frame.pc = "returned" /\ frame.num_games = 0 =>
        /\ frame.result = Some(NewBenchmarkResult)
        /\ calls = 0

(* C13, amended: play_count(0) calls snakes_and_ladders() not once and     *)
(* returns an empty histogram, num_games 0 and shortest and longest unset; *)
(* its elapsed is the time the clock advanced during the call, which is    *)
(* not negative and need not be 0.                                         *)

C13_ZeroGamesPlaysNone ==
    frame.pc = "returned" /\ frame.num_games = 0 =>
        /\ calls = 0
        /\ ValueOf(frame.result) =
             [NewBenchmarkResult EXCEPT !.elapsed = ValueOf(frame.result).elapsed]
        /\ ValueOf(frame.result).elapsed = clock - frame.start
        /\ ValueOf(frame.result).elapsed >= 0

\* play_count(0) has returned, the clock having advanced during the call.
C13_Witness ==
    /\ frame.pc = "returned"
    /\ frame.num_games = 0
    /\ calls = 0
    /\ ValueOf(frame.result).elapsed = 1
    /\ ValueOf(frame.result).counts = NewBenchmarkResult.counts

----------------------------------------------------------------------------
\* The games the futures' results count, in all and of length k.
RECURSIVE TotalGames(_)
TotalGames(fs) ==
    IF fs = <<>> THEN 0 ELSE Head(fs).value.num_games + TotalGames(Tail(fs))

RECURSIVE TotalCount(_, _)
TotalCount(fs, k) ==
    IF fs = <<>> THEN 0 ELSE CountOf(Head(fs).value.counts, k) + TotalCount(Tail(fs), k)

(* C14: when benchmark_multicore returns, it has submitted exactly         *)
(* num_jobs futures, the function has run once for each, and the result is *)
(* the sum of their results, each counted once, in whatever order they     *)
(* completed and were taken: its histogram is the pointwise sum of theirs  *)
(* and its num_games the sum of theirs, num_jobs x n for play_count(n).    *)

C14_FoldsEveryResultOnce ==
    /\ Len(jobs) <= num_jobs
    /\ bpc = "returned" =>
          /\ Len(jobs) = num_jobs
          /\ \A j \in 1 .. Len(jobs) : jobs[j].status = "done" /\ jobs[j].runs = 1
          /\ \A k \in HistKeys \cup DOMAIN ValueOf(acc).counts :
                CountOf(ValueOf(acc).counts, k) = TotalCount(jobs, k)
          /\ ValueOf(acc).num_games = TotalGames(jobs)
          /\ ValueOf(acc).num_games = num_jobs * job_arg

\* The results of three jobs of one game each, the games of two lengths,
\* have been summed.
C14_Witness ==
    /\ bpc = "returned"
    /\ num_jobs = 3
    /\ job_arg = 1
    /\ ValueOf(acc).num_games = 3
    /\ Cardinality(DOMAIN ValueOf(acc).counts) = 2

----------------------------------------------------------------------------
\* Some future has failed.
AnyFailed == \E j \in 1 .. Len(jobs) : jobs[j].status = "failed"

(* C15: once a future of benchmark_multicore has failed (its function      *)
(* raised or its worker died) the call never returns a result; it ends by  *)
(* raising, and stays so; and the function is run at most once for each    *)
(* future, a failed future never being run again.                          *)

C15_FailureSurfaces ==
    /\ [](bpc = "returned" => ~AnyFailed)
    /\ [](\A j \in 1 .. Len(jobs) : jobs[j].runs <= 1)
    /\ [][\A j \in 1 .. Len(jobs) : jobs[j].status = "failed" => jobs'[j] = jobs[j]]_vars
    /\ [][bpc = "raised" => bpc' = "raised"]_vars
    /\ (AnyFailed ~> (bpc = "raised"))

\* The call has raised after it had added the result of one future: of
\* three futures one has failed and two are done.
C15_Witness ==
    /\ bpc = "raised"
    /\ num_jobs = 3
    /\ job_arg = 1
    /\ Cardinality({j \in 1 .. Len(jobs) : jobs[j].status = "failed"}) = 1
    /\ Cardinality(folded) = 2
    /\ ValueOf(acc).num_games = 1

----------------------------------------------------------------------------
(* C18: benchmark_multicore has created its result, has taken a future     *)
(* from as_completed or has returned only when all num_jobs futures have   *)
(* been submitted and none of them is pending any more; and a pass of the  *)
(* loop takes one future.                                                  *)

C18_JoinBeforeFold ==
    /\ bpc \in {"fold", "returned"} \/ folded # {} \/ acc # None =>
          /\ Len(jobs) = num_jobs
          /\ Pending(jobs) = {}
    /\ acc # None => ValueOf(acc).num_games = Cardinality(folded) * job_arg
                     \/ bpc = "raised"

\* The first of three results has been added, every worker having ended.
C18_Witness ==
    /\ bpc = "fold"
    /\ num_jobs = 3
    /\ Cardinality(folded) = 1
    /\ \A j \in 1 .. Len(jobs) : jobs[j].status = "done"

----------------------------------------------------------------------------
\* The rolls of a trace.
Rolls(trace) == [i \in 1 .. Len(trace) |-> trace[i][1]]

KnownRolls == <<4, 6, 6, 2, 5, 5, 6>>

KnownTrace ==
    << <<4, 14>>, <<6, 20>>, <<6, 26>>, <<2, 84>>, <<5, 89>>, <<5, 94>>, <<6, 100>> >>

(* C16: a game whose dice show 4, 6, 6, 2, 5, 5, 6 has, move by move, the  *)
(* trace (4,14), (6,20), (6,26), (2,84), (5,89), (5,94), (6,100); it goes  *)
(* on through the first six moves and returns at the seventh.  The trace   *)
(* and the place of any game are those its rolls alone determine.          *)

C16_KnownGame ==
    /\ Len(moves) <= Len(KnownRolls) /\ Rolls(moves) = SubSeq(KnownRolls, 1, Len(moves)) =>
          /\ moves = SubSeq(KnownTrace, 1, Len(moves))
          /\ (gpc = "returned") <=> (Len(moves) = Len(KnownRolls))
    /\ moves = Replay(Rolls(moves), 0, <<>>)
    /\ place = IF moves = <<>> THEN 0 ELSE moves[Len(moves)][2]

\* The game of the seven rolls has returned.
C16_Witness ==
    /\ gpc = "returned"
    /\ Rolls(moves) = KnownRolls
    /\ moves = KnownTrace

----------------------------------------------------------------------------
\* The roll sequences of length k that win from place p at their last
\* roll and not before.
RECURSIVE Winning(_, _)
Winning(p, k) ==
    IF k = 0 THEN (IF Won(p) THEN {<<>>} ELSE {})
    ELSE IF Won(p) THEN {}
    ELSE UNION { {<<r>> \o rest : rest \in Winning(NewPlace(p, r), k - 1)} : r \in 1 .. 6 }

ShortestWins == Winning(0, Len(KnownRolls))

(* C17: no game returns in fewer than 7 moves; the known game of 7 moves   *)
(* is a winning one; and a game that has returned in 7 moves is one of     *)
(* exactly two such games.                                                 *)

C17_TwoShortestGames ==
    /\ gpc = "returned" => Len(moves) >= 7
    /\ KnownRolls \in ShortestWins
    /\ gpc = "returned" /\ Len(moves) = 7 =>
          /\ Rolls(moves) \in ShortestWins
          /\ Cardinality(ShortestWins) = 2

----------------------------------------------------------------------------
\* The places from which some sequence of rolls reaches a win.
CanWin == WinWithin[Len(WinWithin)]

(* C19: in every state of a game, however long it has run, the place is    *)
(* one from which some further sequence of rolls reaches 100: no place the *)
(* game can come to is absorbing or lies on a cycle without a way out.     *)

C19_WinStaysReachable ==
    /\ place \in CanWin
    /\ \A i \in 1 .. Len(moves) : moves[i][2] \in CanWin

\* The game has slid down the snake from 98 and can still be won.
C19_Witness ==
    /\ gpc = "playing"
    /\ place = 78
    /\ Len(moves) = TraceWindow
    /\ moves[Len(moves) - 1][2] + moves[Len(moves)][1] = 98
    /\ place \in CanWin

----------------------------------------------------------------------------
\* The values a step can give a new BenchmarkResult object.
NewValues ==
    {NewBenchmarkResult}
    \cup {play_count(1, <<game>>, 1) : game \in SampleGames}
    \cup {Add(Deref(heap, refs[left]), Deref(heap, refs[right])) : left \in Names, right \in Names}

(* C20: a step of a caller (r = a + b, also r = a + a and a = a + b; a     *)
(* BenchmarkResult(); a play_count) makes one new BenchmarkResult object   *)
(* and leaves every object there was as it was: each dict, each list, and  *)
(* the histogram, elapsed, num_games, shortest and longest of each         *)
(* BenchmarkResult, the operands among them, however often they have been  *)
(* or are later added.  The new object holds the value of the call.        *)

C20_AddLeavesOperandsUnchanged ==
    [][/\ Len(heap'.results) = Len(heap.results) + 1
       /\ \A ref \in 1 .. Len(heap.results) :
             /\ heap'.results[ref] = heap.results[ref]
             /\ Deref(heap', ref) = Deref(heap, ref)
       /\ \A d \in 1 .. Len(heap.dicts) : heap'.dicts[d] = heap.dicts[d]
       /\ \A l \in 1 .. Len(heap.lists) : heap'.lists[l] = heap.lists[l]
       /\ Deref(heap', Len(heap'.results)) \in NewValues]_heapVars

\* x = x + y has been run on an x and a y of one game each: x now refers
\* to a new object of two games that holds the shortest list of the old x,
\* and the old x and y are still there with one game each.
C20_Witness ==
    /\ Len(heap.results) = 4
    /\ refs["x"] = 4
    /\ refs["y"] = 3
    /\ Deref(heap, 4).num_games = 2
    /\ Deref(heap, 3).num_games = 1
    /\ Deref(heap, 2).num_games = 1
    /\ heap.results[4].shortest = heap.results[2].shortest
    /\ heap.results[4].counts # heap.results[2].counts

====
